---- MODULE Spec2Model ----
\* Seam carving (2024201062_A1_Q4.cpp): energyCal, seamSearch, removeVerSeam,
\* seamCar and main.
\*
\* A cv::Mat is a record [rows, cols, at] whose field at is indexed from 0 as
\* in the source: m.at[i][j] stands for m.at<T>(i, j).  A seam (int*) is a
\* function from 0..rows-1 to column indices.  Doubles are fixed-point
\* integers in units of 1/100 (energyCal) or plain naturals (the inputs of
\* seamSearch taken on its own).
EXTENDS Integers, Sequences, FiniteSets, TLC

VARIABLES pc, argc, srcImg, newWidth, newHeight, img, energy, seam,
          resizedImg, written, stdout, exitStatus, verSeams, horSeams,
          fn, newImg

vars == <<pc, argc, srcImg, newWidth, newHeight, img, energy, seam,
          resizedImg, written, stdout, exitStatus, verSeams, horSeams,
          fn, newImg>>

(* ------------------------------ bounds -------------------------------- *)

\* Largest decoded image: MaxW columns by MaxH rows.
MaxW == 3
MaxH == 3
\* Largest energy field handed to seamSearch on its own.
MaxRows == 3
MaxCols == 3
MaxCells == 9
\* Energy values handed to seamSearch on its own are 0..MaxEnergy.
MaxEnergy == 1

(* ------------------------------ matrices ------------------------------ *)

Mat(rows, cols, f) == [rows |-> rows, cols |-> cols, at |-> f]

\* Mat(): no data, 0 x 0.
NoMat == Mat(0, 0, [i \in {} |-> [j \in {} |-> 0]])

\* Mat::empty(): no elements.
Empty(m) == m.rows = 0 \/ m.cols = 0

NoSeam == [i \in {} |-> 0]

Min(a, b) == IF b < a THEN b ELSE a

\* cv::transpose(img, img); an empty source releases the destination.
Transpose(m) ==
    IF Empty(m) THEN NoMat
    ELSE Mat(m.cols, m.rows,
             [i \in 0..(m.cols - 1) |-> [j \in 0..(m.rows - 1) |-> m.at[j][i]]])

(* ------------------------------ energyCal ----------------------------- *)

\* cvtColor(img, gray, COLOR_BGR2GRAY) on one 8-bit BGR pixel: OpenCV's
\* fixed-point BT.601 luminance.
BGR2GRAY(px) == (px[1] * 1868 + px[2] * 9617 + px[3] * 4899 + 8192) \div 16384

RECURSIVE ISqrtBetween(_, _, _)
\* The largest r in lo..hi with r * r <= n (lo * lo <= n).
ISqrtBetween(n, lo, hi) ==
    IF lo >= hi THEN lo
    ELSE LET mid == (lo + hi + 1) \div 2
         IN  IF mid * mid <= n THEN ISqrtBetween(n, mid, hi)
             ELSE ISqrtBetween(n, lo, mid - 1)

\* sqrt(n) as a fixed-point number with two decimals.
Sqrt(n) == ISqrtBetween(n * 10000, 0, 46340)

GradX(gray, y, x, width) ==
    IF x > 0 /\ x < width - 1 THEN gray[y][x + 1] - gray[y][x - 1]
    ELSE IF x = 0 /\ width > 1 THEN gray[y][x + 1] - gray[y][x]
    ELSE IF x = width - 1 /\ width > 1 THEN gray[y][x] - gray[y][x - 1]
    ELSE 0

GradY(gray, y, x, height) ==
    IF y > 0 /\ y < height - 1 THEN gray[y + 1][x] - gray[y - 1][x]
    ELSE IF y = 0 /\ height > 1 THEN gray[y + 1][x] - gray[y][x]
    ELSE IF y = height - 1 /\ height > 1 THEN gray[y][x] - gray[y - 1][x]
    ELSE 0

energyCal(m) ==
    LET height == m.rows
        width == m.cols
        gray == [y \in 0..(height - 1) |->
                    [x \in 0..(width - 1) |-> BGR2GRAY(m.at[y][x])]]
    IN  Mat(height, width,
            [y \in 0..(height - 1) |-> [x \in 0..(width - 1) |->
                LET grad_x == GradX(gray, y, x, width)
                    grad_y == GradY(gray, y, x, height)
                IN  Sqrt(grad_x * grad_x + grad_y * grad_y)]])

(* ------------------------------ seamSearch ---------------------------- *)

\* A dynamic-programming step that forgets the upper-right neighbour.
MinUpperNoRight(cum, i, j) ==
    LET straight == cum.at[i - 1][j]
    IN  IF j > 0 THEN Min(straight, cum.at[i - 1][j - 1]) ELSE straight

\* minEnergy of cell (i, j): the least of the up-to-three cells above it.
MinUpper(cum, i, j) ==
    LET straight == cum.at[i - 1][j]
        withLeft == IF j > 0 THEN Min(straight, cum.at[i - 1][j - 1])
                    ELSE straight
    IN  IF j < cum.cols - 1 THEN Min(withLeft, cum.at[i - 1][j + 1])
        ELSE withLeft

RECURSIVE AccumulateRows(_, _)
\* for (i = 1; i < rows; i++) for (j ...) cumulativeEnergy(i, j) += minEnergy.
\* Row i is written in place and reads row i - 1 only.
AccumulateRows(cum, i) ==
    IF i < cum.rows
    THEN AccumulateRows(
             [cum EXCEPT !.at[i] =
                 [j \in 0..(cum.cols - 1) |-> cum.at[i][j] + MinUpper(cum, i, j)]],
             i + 1)
    ELSE cum

\* cumulativeEnergy after the accumulation loops; it starts as energy.clone().
CumulativeEnergy(e) == AccumulateRows(e, 1)

RECURSIVE MinScan(_, _, _, _)
\* The scan of minMaxLoc: a later element replaces the minimum only when it
\* is strictly smaller.
MinScan(row, cols, j, best) ==
    IF j < cols
    THEN MinScan(row, cols, j + 1, IF row[j] < row[best] THEN j ELSE best)
    ELSE best

\* minLoc.x of minMaxLoc over one row.
MinLocX(row, cols) == MinScan(row, cols, 1, 0)

\* A backtracking step that takes the least cell of the whole row above.
BacktrackColGreedy(cum, i, prev_col) == MinLocX(cum.at[i], cum.cols)

\* A backtracking step whose left comparison is not strict.
BacktrackColLeftTie(cum, i, prev_col) ==
    LET goLeft == prev_col > 0 /\ cum.at[i][prev_col - 1] <= cum.at[i][prev_col]
        minE == IF goLeft THEN cum.at[i][prev_col - 1] ELSE cum.at[i][prev_col]
        goRight == prev_col < cum.cols - 1 /\ cum.at[i][prev_col + 1] < minE
    IN  IF goRight THEN prev_col + 1
        ELSE IF goLeft THEN prev_col - 1 ELSE prev_col

\* seam[i] from prev_col = seam[i + 1]: straight, then left, then right, each
\* taken only when strictly smaller than the best so far.
BacktrackCol(cum, i, prev_col) ==
    LET goLeft == prev_col > 0 /\ cum.at[i][prev_col - 1] < cum.at[i][prev_col]
        minE == IF goLeft THEN cum.at[i][prev_col - 1] ELSE cum.at[i][prev_col]
        goRight == prev_col < cum.cols - 1 /\ cum.at[i][prev_col + 1] < minE
    IN  IF goRight THEN prev_col + 1
        ELSE IF goLeft THEN prev_col - 1 ELSE prev_col

RECURSIVE Backtrack(_, _, _)
\* for (i = rows - 2; i >= 0; i--) seam[i] = ...
Backtrack(cum, s, i) ==
    IF i >= 0
    THEN Backtrack(cum, [s EXCEPT ![i] = BacktrackCol(cum, i, s[i + 1])], i - 1)
    ELSE s

\* new int[rows]: no entry has a column yet (-1 is no column index).
NewSeam(rows) == [i \in 0..(rows - 1) |-> -1]

seamSearch(e) ==
    LET rows == e.rows
        cols == e.cols
        cum == CumulativeEnergy(e)
        bottom == [NewSeam(rows) EXCEPT ![rows - 1] = MinLocX(cum.at[rows - 1], cols)]
    IN  Backtrack(cum, bottom, rows - 2)

(* ----------------------------- removeVerSeam -------------------------- *)

\* A newImg element that no loop has written.
Unwritten == <<-1, -1, -1>>

RECURSIVE CopyLeft(_, _, _, _)
\* for (j = 0; j < seamCol; j++) newImg(i, j) = img(i, j)
CopyLeft(newRow, imgRow, j, seamCol) ==
    IF j < seamCol
    THEN CopyLeft([newRow EXCEPT ![j] = imgRow[j]], imgRow, j + 1, seamCol)
    ELSE newRow

RECURSIVE CopyRightNoShift(_, _, _, _)
\* A right-hand copy that reads the column it writes.
CopyRightNoShift(newRow, imgRow, j, cols) ==
    IF j < cols
    THEN CopyRightNoShift([newRow EXCEPT ![j - 1] = imgRow[j - 1]], imgRow, j + 1, cols)
    ELSE newRow

RECURSIVE CopyRight(_, _, _, _)
\* for (j = seamCol + 1; j < cols; j++) newImg(i, j - 1) = img(i, j)
CopyRight(newRow, imgRow, j, cols) ==
    IF j < cols
    THEN CopyRight([newRow EXCEPT ![j - 1] = imgRow[j]], imgRow, j + 1, cols)
    ELSE newRow

removeVerSeam(m, s) ==
    LET rows == m.rows
        cols == m.cols
        blank == [j \in 0..(cols - 2) |-> Unwritten]
    IN  Mat(rows, cols - 1,
            [i \in 0..(rows - 1) |->
                CopyRight(CopyLeft(blank, m.at[i], 0, s[i]), m.at[i], s[i] + 1, cols)])

(* -------------------------------- seamCar ---------------------------- *)

\* A rejection test that lets equal dimensions through.
InvalidInputStrict(m, w, h) == h > m.rows \/ w > m.cols

\* A rejection test that looks at the height only.
InvalidInputHeightOnly(m, w, h) == h >= m.rows

\* if (newHeight >= img.rows || newWidth >= img.cols)
InvalidInput(m, w, h) == h >= m.rows \/ w >= m.cols

\* A width loop that runs once more.
WidthLoopCondOffByOne(m, w) == m.cols >= w

\* while (img.cols > newWidth)
WidthLoopCond(m, w) == m.cols > w

\* A height loop that runs once more.
HeightLoopCondOffByOne(m, h) == m.rows >= h

\* while (img.rows > newHeight)
HeightLoopCond(m, h) == m.rows > h

(* ------------------------------- the inputs --------------------------- *)

\* Colours of the decoded images (blue, green, red): black, red, white.
Palette == << <<0, 0, 0>>, <<0, 0, 255>>, <<255, 255, 255>> >>

\* The w x h image whose pixel (x, y) has colour number
\* (a*x + b*y + c + d*x*y) mod 3: constant images, stripes, gradients,
\* diagonals and single odd pixels.
ImageOf(w, h, a, b, c, d) ==
    Mat(h, w, [y \in 0..(h - 1) |-> [x \in 0..(w - 1) |->
                  Palette[((a * x + b * y + c + d * x * y) % Len(Palette)) + 1]]])

ImagesOfSize(w, h) ==
    { ImageOf(w, h, a, b, c, d) : a \in 0..(Len(Palette) - 1),
                                  b \in 0..(Len(Palette) - 1),
                                  c \in 0..(Len(Palette) - 1),
                                  d \in 0..(Len(Palette) - 1) }

\* What imread can decode.
Images == UNION { ImagesOfSize(w, h) : w \in 1..MaxW, h \in 1..MaxH }

\* What cin >> newWidth and cin >> newHeight can read.
TargetWidths == (0 - 1)..MaxW
TargetHeights == (0 - 1)..MaxH

(* --------------------------------- main ------------------------------- *)

Exit(code) == pc' = "exited" /\ exitStatus' = <<code>>

\* An uncaught cv::Exception: std::terminate, the process dies of SIGABRT.
Throw == pc' = "exited" /\ exitStatus' = <<134>>

Init ==
    /\ pc = "main"
    /\ argc \in {1, 2}
    /\ srcImg = NoMat
    /\ newWidth = 0
    /\ newHeight = 0
    /\ img = NoMat
    /\ energy = NoMat
    /\ seam = NoSeam
    /\ resizedImg = NoMat
    /\ written = NoMat
    /\ stdout = <<>>
    /\ exitStatus = <<>>
    /\ verSeams = 0
    /\ horSeams = 0
    /\ fn = "main"
    /\ newImg = NoMat

\* if (argc < 2) { usage; return -1; }
MainUsage ==
    /\ pc = "main"
    /\ argc < 2
    /\ stdout' = Append(stdout, "Usage: <image_path>")
    /\ Exit(0 - 1)
    /\ UNCHANGED <<argc, srcImg, newWidth, newHeight, img, energy, seam,
                   resizedImg, written, verSeams, horSeams, fn, newImg>>

\* imread returns an empty Mat: "Error: not found", return -1.
MainImreadEmpty ==
    /\ pc = "main"
    /\ argc >= 2
    /\ srcImg' = NoMat
    /\ stdout' = Append(stdout, "Error: not found")
    /\ Exit(0 - 1)
    /\ UNCHANGED <<argc, newWidth, newHeight, img, energy, seam,
                   resizedImg, written, verSeams, horSeams, fn, newImg>>

\* imread decodes the file.
MainImread ==
    /\ pc = "main"
    /\ argc >= 2
    /\ \E m \in Images : srcImg' = m
    /\ pc' = "cin"
    /\ UNCHANGED <<argc, newWidth, newHeight, img, energy, seam, resizedImg,
                   written, stdout, exitStatus, verSeams, horSeams, fn, newImg>>

\* The two prompts and reads, then the call seamCar(img, newWidth, newHeight):
\* the Mat is passed by value.
MainCin ==
    /\ pc = "cin"
    /\ \E w \in TargetWidths, h \in TargetHeights :
           newWidth' = w /\ newHeight' = h
    /\ stdout' = stdout \o <<"Enter new width: ", "Enter new height: ">>
    /\ img' = srcImg
    /\ pc' = "seamCar"
    /\ UNCHANGED <<argc, srcImg, energy, seam, resizedImg, written,
                   exitStatus, verSeams, horSeams, fn, newImg>>

\* seamCar: "Invalid Input", exit(0).
SeamCarInvalid ==
    /\ pc = "seamCar"
    /\ InvalidInput(img, newWidth, newHeight)
    /\ stdout' = Append(stdout, "Invalid Input\n")
    /\ Exit(0)
    /\ UNCHANGED <<argc, srcImg, newWidth, newHeight, img, energy, seam,
                   resizedImg, written, verSeams, horSeams, fn, newImg>>

SeamCarValid ==
    /\ pc = "seamCar"
    /\ ~InvalidInput(img, newWidth, newHeight)
    /\ pc' = "widthLoop"
    /\ UNCHANGED <<argc, srcImg, newWidth, newHeight, img, energy, seam,
                   resizedImg, written, stdout, exitStatus, verSeams,
                   horSeams, fn, newImg>>

\* Width loop, test and first statement: Mat energy = energyCal(img).
WidthEnergy ==
    /\ pc = "widthLoop"
    /\ WidthLoopCond(img, newWidth)
    /\ ~Empty(img)
    /\ energy' = energyCal(img)
    /\ pc' = "wSeam"
    /\ UNCHANGED <<argc, srcImg, newWidth, newHeight, img, seam, resizedImg,
                   written, stdout, exitStatus, verSeams, horSeams, fn, newImg>>

\* energyCal on an image without pixels: cvtColor throws.
WidthEnergyThrows ==
    /\ pc = "widthLoop"
    /\ WidthLoopCond(img, newWidth)
    /\ Empty(img)
    /\ Throw
    /\ UNCHANGED <<argc, srcImg, newWidth, newHeight, img, energy, seam,
                   resizedImg, written, stdout, verSeams, horSeams, fn, newImg>>

\* int *seam = seamSearch(energy)
WidthSeam ==
    /\ pc = "wSeam"
    /\ seam' = seamSearch(energy)
    /\ pc' = "wRemove"
    /\ UNCHANGED <<argc, srcImg, newWidth, newHeight, img, energy, resizedImg,
                   written, stdout, exitStatus, verSeams, horSeams, fn, newImg>>

\* img = removeVerSeam(img, seam); delete[] seam; energy goes out of scope.
WidthRemove ==
    /\ pc = "wRemove"
    /\ img' = removeVerSeam(img, seam)
    /\ verSeams' = verSeams + 1
    /\ seam' = NoSeam
    /\ energy' = NoMat
    /\ pc' = "widthLoop"
    /\ UNCHANGED <<argc, srcImg, newWidth, newHeight, resizedImg, written,
                   stdout, exitStatus, horSeams, fn, newImg>>

WidthLoopExit ==
    /\ pc = "widthLoop"
    /\ ~WidthLoopCond(img, newWidth)
    /\ pc' = "heightLoop"
    /\ UNCHANGED <<argc, srcImg, newWidth, newHeight, img, energy, seam,
                   resizedImg, written, stdout, exitStatus, verSeams,
                   horSeams, fn, newImg>>

\* Height loop, test and first statements: transpose(img, img);
\* Mat energy = energyCal(img).
HeightEnergy ==
    /\ pc = "heightLoop"
    /\ HeightLoopCond(img, newHeight)
    /\ ~Empty(Transpose(img))
    /\ img' = Transpose(img)
    /\ energy' = energyCal(Transpose(img))
    /\ pc' = "hSeam"
    /\ UNCHANGED <<argc, srcImg, newWidth, newHeight, seam, resizedImg,
                   written, stdout, exitStatus, verSeams, horSeams, fn, newImg>>

HeightEnergyThrows ==
    /\ pc = "heightLoop"
    /\ HeightLoopCond(img, newHeight)
    /\ Empty(Transpose(img))
    /\ img' = Transpose(img)
    /\ Throw
    /\ UNCHANGED <<argc, srcImg, newWidth, newHeight, energy, seam,
                   resizedImg, written, stdout, verSeams, horSeams, fn, newImg>>

HeightSeam ==
    /\ pc = "hSeam"
    /\ seam' = seamSearch(energy)
    /\ pc' = "hRemove"
    /\ UNCHANGED <<argc, srcImg, newWidth, newHeight, img, energy, resizedImg,
                   written, stdout, exitStatus, verSeams, horSeams, fn, newImg>>

\* img = removeVerSeam(img, seam); transpose(img, img); delete[] seam.
HeightRemove ==
    /\ pc = "hRemove"
    /\ img' = Transpose(removeVerSeam(img, seam))
    /\ horSeams' = horSeams + 1
    /\ seam' = NoSeam
    /\ energy' = NoMat
    /\ pc' = "heightLoop"
    /\ UNCHANGED <<argc, srcImg, newWidth, newHeight, resizedImg, written,
                   stdout, exitStatus, verSeams, fn, newImg>>

\* return img; main keeps it as resizedImg.
SeamCarReturn ==
    /\ pc = "heightLoop"
    /\ ~HeightLoopCond(img, newHeight)
    /\ resizedImg' = img
    /\ pc' = "imwrite"
    /\ UNCHANGED <<argc, srcImg, newWidth, newHeight, img, energy, seam,
                   written, stdout, exitStatus, verSeams, horSeams, fn, newImg>>

\* imwrite succeeds: return 0.
ImwriteOk ==
    /\ pc = "imwrite"
    /\ ~Empty(resizedImg)
    /\ written' = resizedImg
    /\ Exit(0)
    /\ UNCHANGED <<argc, srcImg, newWidth, newHeight, img, energy, seam,
                   resizedImg, stdout, verSeams, horSeams, fn, newImg>>

\* imwrite returns false: "Error: not save that size", return -1.
ImwriteFails ==
    /\ pc = "imwrite"
    /\ stdout' = Append(stdout, "Error: not save that size")
    /\ Exit(0 - 1)
    /\ UNCHANGED <<argc, srcImg, newWidth, newHeight, img, energy, seam,
                   resizedImg, written, verSeams, horSeams, fn, newImg>>

\* imwrite of an image without pixels may throw instead of returning false.
ImwriteThrows ==
    /\ pc = "imwrite"
    /\ Empty(resizedImg)
    /\ Throw
    /\ UNCHANGED <<argc, srcImg, newWidth, newHeight, img, energy, seam,
                   resizedImg, written, stdout, verSeams, horSeams, fn, newImg>>

\* The statements of main before the call and after the return.
MainNext ==
    \/ MainUsage
    \/ MainImreadEmpty
    \/ MainImread
    \/ MainCin
    \/ ImwriteOk
    \/ ImwriteFails
    \/ ImwriteThrows

\* The statements of seamCar.
SeamCarNext ==
    \/ SeamCarInvalid
    \/ SeamCarValid
    \/ WidthEnergy
    \/ WidthEnergyThrows
    \/ WidthSeam
    \/ WidthRemove
    \/ WidthLoopExit
    \/ HeightEnergy
    \/ HeightEnergyThrows
    \/ HeightSeam
    \/ HeightRemove
    \/ SeamCarReturn

Next == MainNext \/ SeamCarNext

Spec == Init /\ [][Next]_vars

(* ------------------ seamSearch and removeVerSeam on their own --------- *)

\* The energy fields handed to seamSearch: rows, columns and the cells'
\* values are bounded.
FieldSizes ==
    { rc \in (1..MaxRows) \X (1..MaxCols) : rc[1] * rc[2] <= MaxCells }

\* All assignments of a value 0..MaxEnergy to the cells of r rows, c columns.
FieldCells(r, c) == [0..(r - 1) -> [0..(c - 1) -> 0..MaxEnergy]]

\* Every sequence of m.rows column indices of m, connected or not.
ColumnChoices(m) == [0..(m.rows - 1) -> 0..(m.cols - 1)]

InitUnit ==
    /\ pc = "call"
    /\ \/ /\ fn = "seamSearch"
          /\ \E rc \in FieldSizes : \E f \in FieldCells(rc[1], rc[2]) :
                energy = Mat(rc[1], rc[2], f)
          /\ img = NoMat
          /\ seam = NoSeam
       \/ /\ fn = "removeVerSeam"
          /\ energy = NoMat
          /\ \E w \in 2..MaxW, h \in 1..MaxH : img \in ImagesOfSize(w, h)
          /\ seam \in ColumnChoices(img)
    /\ argc = 0
    /\ srcImg = NoMat
    /\ newWidth = 0
    /\ newHeight = 0
    /\ resizedImg = NoMat
    /\ written = NoMat
    /\ stdout = <<>>
    /\ exitStatus = <<>>
    /\ verSeams = 0
    /\ horSeams = 0
    /\ newImg = NoMat

CallSeamSearch ==
    /\ pc = "call"
    /\ fn = "seamSearch"
    /\ seam' = seamSearch(energy)
    /\ pc' = "ret"
    /\ UNCHANGED <<argc, srcImg, newWidth, newHeight, img, energy, resizedImg,
                   written, stdout, exitStatus, verSeams, horSeams, fn, newImg>>

CallRemoveVerSeam ==
    /\ pc = "call"
    /\ fn = "removeVerSeam"
    /\ newImg' = removeVerSeam(img, seam)
    /\ pc' = "ret"
    /\ UNCHANGED <<argc, srcImg, newWidth, newHeight, img, energy, seam,
                   resizedImg, written, stdout, exitStatus, verSeams,
                   horSeams, fn>>

NextUnit ==
    \/ CallSeamSearch
    \/ CallRemoveVerSeam

UnitSpec == InitUnit /\ [][NextUnit]_vars

(* ------------------------------- the claims --------------------------- *)

\* seamCar has been called: main got past imread and the two reads.
SeamCarCalled == pc \notin {"main", "cin", "call", "ret"} /\ ~Empty(srcImg)

\* 1 <= W' < W and 1 <= H' < H for the decoded W x H image.
ValidTargets ==
    /\ 1 <= newWidth /\ newWidth < srcImg.cols
    /\ 1 <= newHeight /\ newHeight < srcImg.rows

\* A target that is not strictly less than its dimension.
NotStrictlyLess == newWidth >= srcImg.cols \/ newHeight >= srcImg.rows

InvalidReported ==
    /\ pc = "exited"
    /\ Len(stdout) > 0
    /\ stdout[Len(stdout)] = "Invalid Input\n"

InSeamOfWidth(s, rows, cols) ==
    /\ DOMAIN s = 0..(rows - 1)
    /\ \A i \in 0..(rows - 1) : s[i] \in 0..(cols - 1)

Connected(s, rows) ==
    \A i \in 0..(rows - 2) : s[i] - s[i + 1] \in {0 - 1, 0, 1}

\* Where seamCar stands, counted down: its statements still to run before the
\* current loop iteration ends, and the return and the save after the loops.
PcRank ==
    CASE pc = "seamCar" -> 4
      [] pc = "widthLoop" -> 3
      [] pc = "wSeam" -> 2
      [] pc = "wRemove" -> 1
      [] pc = "heightLoop" -> 2
      [] pc = "hSeam" -> 1
      [] pc = "hRemove" -> 0
      [] pc = "imwrite" -> 1
      [] OTHER -> 0

\* Columns plus rows of img (transposed or not) above the targets.
Excess == (img.cols + img.rows) - (newWidth + newHeight)

\* The steps seamCar still has to take; a loop iteration is four.
StepsLeft == 4 * Excess + PcRank

\* The statement seamCar is about to run has what it needs: an image with
\* pixels for energyCal, a field with cells for seamSearch, an image at least
\* 2 wide and a seam inside it for removeVerSeam.
NextStepDefined ==
    /\ pc = "widthLoop" /\ WidthLoopCond(img, newWidth) => ~Empty(img)
    /\ pc = "heightLoop" /\ HeightLoopCond(img, newHeight) => ~Empty(img)
    /\ pc \in {"wSeam", "hSeam"} => ~Empty(energy)
    /\ pc \in {"wRemove", "hRemove"} =>
          img.cols >= 2 /\ InSeamOfWidth(seam, img.rows, img.cols)

\* C1: for valid targets seamCar terminates (each statement it reaches is
\* defined, none ends the process, and every step brings it nearer to the
\* return) and the image it returns is exactly newWidth wide and newHeight
\* high.
C1_ResizeDims ==
    /\ [](SeamCarCalled /\ ValidTargets /\ pc = "imwrite"
            => resizedImg.cols = newWidth /\ resizedImg.rows = newHeight)
    /\ [](SeamCarCalled /\ ValidTargets /\ pc \notin {"imwrite", "exited"}
            => StepsLeft >= 0 /\ NextStepDefined)
    /\ [][SeamCarCalled /\ ValidTargets /\ pc \notin {"imwrite", "exited"}
            => StepsLeft' < StepsLeft /\ pc' # "exited"]_vars

C1_Witness ==
    /\ pc = "imwrite"
    /\ ValidTargets
    /\ srcImg.cols = 3 /\ srcImg.rows = 3
    /\ resizedImg.cols = 1 /\ resizedImg.rows = 1
    /\ verSeams = 2 /\ horSeams = 2

\* C2: a target width or height that is not strictly less than the image's
\* (both equal included) is reported as invalid input; no seam is removed and
\* no image is returned or written.
C2_InvalidRejected ==
    SeamCarCalled /\ NotStrictlyLess =>
        /\ pc \in {"seamCar", "exited"}
        /\ pc = "exited" => InvalidReported
        /\ verSeams = 0 /\ horSeams = 0
        /\ img = srcImg
        /\ resizedImg = NoMat
        /\ written = NoMat

C2_Witness ==
    /\ SeamCarCalled
    /\ newWidth = srcImg.cols /\ newHeight = srcImg.rows
    /\ InvalidReported
    /\ written = NoMat

\* C3 as stated: with the target width equal to the image width and the
\* target height strictly less, the driver is not in error: it ends with
\* H - H' horizontal seams removed and an image of W x H'.
C3_EqualWidthSkipsToHeight ==
    /\ SeamCarCalled
    /\ newWidth = srcImg.cols
    /\ 1 <= newHeight /\ newHeight < srcImg.rows
    /\ pc = "exited"
    => /\ ~InvalidReported
       /\ verSeams = 0
       /\ horSeams = srcImg.rows - newHeight
       /\ resizedImg.cols = srcImg.cols /\ resizedImg.rows = newHeight

\* C3 amended: with one target equal to its dimension and the other strictly
\* less, the driver reports invalid input; it enters neither reducing state,
\* removes no seam and returns no image.
C3_EqualAxisRejected ==
    /\ SeamCarCalled
    /\ \/ newWidth = srcImg.cols /\ newHeight < srcImg.rows
       \/ newHeight = srcImg.rows /\ newWidth < srcImg.cols
    => /\ pc \in {"seamCar", "exited"}
       /\ pc = "exited" => InvalidReported
       /\ verSeams = 0 /\ horSeams = 0
       /\ resizedImg = NoMat

C3_Witness ==
    /\ SeamCarCalled
    /\ srcImg.cols = 3 /\ srcImg.rows = 3
    /\ newWidth = 3 /\ newHeight = 2
    /\ InvalidReported
    /\ horSeams = 0

\* C4: the seam seamSearch returns has one entry per row, every entry is a
\* column of the field, and entries of adjacent rows differ by at most 1.
C4_SeamShape ==
    pc = "ret" /\ fn = "seamSearch" =>
        /\ InSeamOfWidth(seam, energy.rows, energy.cols)
        /\ Connected(seam, energy.rows)

C4_Witness ==
    /\ pc = "ret" /\ fn = "seamSearch"
    /\ energy.rows >= 3 /\ energy.cols >= 3
    /\ seam[0] # seam[1]
    /\ seam[1] # seam[2]

\* The pixels removeVerSeam has to return, by the rule of the claim.
KeptPixel(m, s, i, j) == IF j < s[i] THEN m.at[i][j] ELSE m.at[i][j + 1]

C5_Removed ==
    pc = "ret" /\ fn = "removeVerSeam" =>
        /\ newImg.rows = img.rows
        /\ newImg.cols = img.cols - 1
        /\ DOMAIN newImg.at = 0..(img.rows - 1)
        /\ \A i \in 0..(img.rows - 1) :
              /\ DOMAIN newImg.at[i] = 0..(img.cols - 2)
              /\ \A j \in 0..(img.cols - 2) :
                    newImg.at[i][j] = KeptPixel(img, seam, i, j)

\* C5: removeVerSeam returns the (W-1) x H image whose pixel (i, j) is the
\* input's pixel (i, j) left of the seam and (i, j+1) from the seam on, and it
\* leaves the input image (and the seam) as they were.
C5_RemoveVerSeam ==
    /\ []C5_Removed
    /\ [][fn = "removeVerSeam" => img' = img /\ seam' = seam]_vars

C5_Witness ==
    /\ pc = "ret" /\ fn = "removeVerSeam"
    /\ img.cols = 3 /\ img.rows = 3
    /\ seam[0] = 0 /\ seam[1] = 2 /\ seam[2] = 1
    /\ img.at[1][0] # img.at[1][1]
    /\ newImg.cols = 2

\* C6 as stated: an exit code of 0 means success, that is the resized image
\* was saved.
C6_ZeroOnlyOnSuccess ==
    pc = "exited" /\ exitStatus = <<0>> => ~Empty(written)

\* C7 as stated: whatever integer targets seamCar lets through, removeVerSeam
\* is only called on an image at least 2 wide with a seam inside it, and the
\* driver's image never loses all its columns or rows.
C7_RemoverPrecondition ==
    SeamCarCalled /\ fn = "main" =>
        /\ pc \in {"wRemove", "hRemove"} =>
              /\ img.cols >= 2
              /\ InSeamOfWidth(seam, img.rows, img.cols)
        /\ pc \in {"widthLoop", "heightLoop", "imwrite"} => ~Empty(img)

RECURSIVE SeamEnergyFrom(_, _, _)
\* energy[i][s[i]] summed over the rows i..rows-1.
SeamEnergyFrom(e, s, i) ==
    IF i < e.rows THEN e.at[i][s[i]] + SeamEnergyFrom(e, s, i + 1) ELSE 0

SeamEnergy(e, s) == SeamEnergyFrom(e, s, 0)

\* Every sequence of column indices whose adjacent entries differ by <= 1.
AllSeams(e) == { s \in ColumnChoices(e) : Connected(s, e.rows) }

\* The cells above (i, j): up to three, two at a column boundary.
UpperNeighbours(e, j) == { k \in {j - 1, j, j + 1} : 0 <= k /\ k < e.cols }

\* C8: the returned seam is a seam of least total energy, that total is the
\* least value of the last cumulative row, and the cumulative field is the
\* energy's first row followed by own energy plus the least cell above.
C8_MinimumSeam ==
    pc = "ret" /\ fn = "seamSearch" =>
        LET cum == CumulativeEnergy(energy)
            total == SeamEnergy(energy, seam)
            last == energy.rows - 1
        IN  /\ seam \in AllSeams(energy)
            /\ \A s \in AllSeams(energy) : total <= SeamEnergy(energy, s)
            /\ \E j \in 0..(energy.cols - 1) : cum.at[last][j] = total
            /\ \A j \in 0..(energy.cols - 1) : total <= cum.at[last][j]
            /\ cum.at[0] = energy.at[0]
            /\ \A i \in 1..last : \A j \in 0..(energy.cols - 1) :
                  /\ \E k \in UpperNeighbours(energy, j) :
                        cum.at[i][j] = energy.at[i][j] + cum.at[i - 1][k]
                  /\ \A k \in UpperNeighbours(energy, j) :
                        cum.at[i][j] <= energy.at[i][j] + cum.at[i - 1][k]

C8_Witness ==
    /\ pc = "ret" /\ fn = "seamSearch"
    /\ energy.rows >= 3 /\ energy.cols >= 3
    /\ seam[0] # seam[1]
    /\ SeamEnergy(energy, seam) > 0
    /\ \E s \in AllSeams(energy) :
          SeamEnergy(energy, s) > SeamEnergy(energy, seam)

\* C9: ties go left at the bottom and straight, then left, above: the bottom
\* entry is the smallest column attaining the least last cumulative value; an
\* entry above moves left only onto a strictly smaller left neighbour, moves
\* right only onto a neighbour strictly smaller than the best of straight and
\* left, and stays otherwise; so a field of equal cells gives column 0 in
\* every row.
C9_TieBreak ==
    pc = "ret" /\ fn = "seamSearch" =>
        LET cum == CumulativeEnergy(energy)
            last == energy.rows - 1
            cols == energy.cols
        IN  /\ \A k \in 0..(cols - 1) :
                  /\ cum.at[last][seam[last]] <= cum.at[last][k]
                  /\ k < seam[last] => cum.at[last][seam[last]] < cum.at[last][k]
            /\ \A i \in 0..(last - 1) :
                  LET p == seam[i + 1]
                      bestOfStraightLeft ==
                          IF p > 0 THEN Min(cum.at[i][p], cum.at[i][p - 1])
                          ELSE cum.at[i][p]
                      rightWins ==
                          p < cols - 1 /\ cum.at[i][p + 1] < bestOfStraightLeft
                      leftWins ==
                          p > 0 /\ cum.at[i][p - 1] < cum.at[i][p] /\ ~rightWins
                  IN  /\ seam[i] = p + 1 <=> rightWins
                      /\ seam[i] = p - 1 <=> leftWins
                      /\ seam[i] = p <=> ~rightWins /\ ~leftWins
            /\ (\A i \in 0..last : \A j \in 0..(cols - 1) :
                    energy.at[i][j] = energy.at[0][0])
                => \A i \in 0..last : seam[i] = 0

C9_Witness ==
    /\ pc = "ret" /\ fn = "seamSearch"
    /\ energy.rows >= 3 /\ energy.cols >= 3
    /\ seam[2] = 1 /\ seam[1] = 1 /\ seam[0] = 1
    /\ energy.at[0][0] = energy.at[0][1]
    /\ energy.at[0][2] = energy.at[0][1]
    /\ energy.at[1][0] = energy.at[1][1]

\* C10: for valid targets the driver removes W - W' vertical seams while the
\* height stays H, then H - H' horizontal seams while the width stays W',
\* each removal taking exactly one column (row), and every removal uses the
\* energy and the seam of the image as it is then.
C10_TwoPhases ==
    SeamCarCalled /\ ValidTargets =>
        /\ pc \in {"widthLoop", "wSeam", "wRemove"} =>
              /\ horSeams = 0
              /\ img.rows = srcImg.rows
              /\ img.cols = srcImg.cols - verSeams
              /\ img.cols >= newWidth
        /\ pc = "wRemove" => img.cols > newWidth
        /\ pc \in {"heightLoop", "hSeam", "hRemove", "imwrite", "exited"} =>
              verSeams = srcImg.cols - newWidth
        /\ pc = "heightLoop" =>
              /\ img.cols = newWidth
              /\ img.rows = srcImg.rows - horSeams
              /\ img.rows >= newHeight
        /\ pc \in {"hSeam", "hRemove"} =>
              /\ img.rows = newWidth
              /\ img.cols = srcImg.rows - horSeams
              /\ img.cols > newHeight
        /\ pc \in {"imwrite", "exited"} =>
              horSeams = srcImg.rows - newHeight
        /\ pc \in {"wSeam", "hSeam", "wRemove", "hRemove"} =>
              energy = energyCal(img)
        /\ pc \in {"wRemove", "hRemove"} => seam = seamSearch(energyCal(img))

C10_Witness ==
    /\ pc = "heightLoop"
    /\ ValidTargets
    /\ srcImg.cols = 3 /\ srcImg.rows = 3
    /\ verSeams = 2 /\ horSeams = 2
    /\ img.cols = 1 /\ img.rows = 1
    /\ img.at[0][0] # srcImg.at[0][0]

====
